---- MODULE Spec2Model ----
(***************************************************************************)
(* Workers HMD: the release ledger (ReleaseHistory), the per-stage records *)
(* (StageStorage), the plan store (PlanStorage), the release orchestrator  *)
(* (ReleaseWorkflow) and the command ingress (the Hono API handlers).      *)
(*                                                                         *)
(* Every Durable Object method is one atomic step (an actor serialises its *)
(* own invocations).  An ingress handler that awaits two calls on the      *)
(* ledger (a read, then a write) is two steps, so that other requests and  *)
(* the orchestrator interleave between them.  Every step.do of the         *)
(* orchestrator is one step.                                               *)
(*                                                                         *)
(* Timestamps are whole seconds of a clock `now`; the empty timestamp ""   *)
(* is 0.  A log line is its message, without the "[timestamp] " prefix.    *)
(*                                                                         *)
(* A handler that answers with an error before it has written anything is  *)
(* a step that changes nothing; HTTP responses are not part of the state.  *)
(***************************************************************************)
EXTENDS Integers, Sequences, FiniteSets, TLC

\* ---------------------------------------------------------------- bounds

\* The ingress requests of one behaviour that pass their checks (create,
\* start, stop, delete, approve, deny).  Requests that are rejected change
\* nothing and are not counted.
MaxInputs == 3
\* External calls (deployment controller, telemetry) that fail, and restarts
\* of an orchestrator process, in one behaviour.
MaxFailures == 1

\* The longest list of SLO configs handed to evaluateSLOs on its own.
MaxSloConfigs == 2

\* The createRelease calls made on a ledger taken on its own.
MaxCreates == 103

\* The longest soak time, and the largest denominator of a polling fraction,
\* of the plans of SpecSoak.
MaxSoak == 4

\* ReleaseHistory.MAX_RELEASES
MAX_RELEASES == 100

\* ------------------------------------------------------------------ plans

PlanStage(o, pct, soak, auto) ==
    [order |-> o, target_percent |-> pct, soak_time |-> soak, auto_progress |-> auto]

\* polling_fraction is a rational num/den in (0,1].
Fraction(n, d) == [num |-> n, den |-> d]

\* Scenario A's plan, the soak times scaled from 60 s to 2 s and 1 s:
\* [ {10%, manual}, {100%, auto} ], SLO p99 < 100 ms, polling fraction 0.5.
ManualPlan ==
    [stages |-> << PlanStage(1, 10, 2, FALSE), PlanStage(2, 100, 1, TRUE) >>,
     slos |-> << [percentile |-> "p99", latency_ms |-> 100] >>,
     polling_fraction |-> Fraction(1, 2),
     time_last_saved |-> 0]

\* The same plan with an automatic first stage.
AutoPlan ==
    [stages |-> << PlanStage(1, 10, 2, TRUE), PlanStage(2, 100, 1, TRUE) >>,
     slos |-> << [percentile |-> "p99", latency_ms |-> 100] >>,
     polling_fraction |-> Fraction(1, 2),
     time_last_saved |-> 0]

\* The plans a PUT /plan may have stored before the first release is created.
Plans == {ManualPlan, AutoPlan}

\* AutoPlan with its stages array listed in descending order of `order`.
UnorderedPlan ==
    [AutoPlan EXCEPT !.stages = << PlanStage(2, 100, 1, TRUE), PlanStage(1, 10, 2, TRUE) >>]

\* AutoPlan with the target percents of its two stages exchanged and a last
\* stage that is not auto_progress.
DescendingPlan ==
    [AutoPlan EXCEPT !.stages = << PlanStage(1, 100, 2, TRUE), PlanStage(2, 10, 1, FALSE) >>]

\* The bodies of PUT /plan: with or without the stages and slos arrays.
PlanInputs == Plans \cup {UnorderedPlan, DescendingPlan}
PutBodies == [arrays : BOOLEAN, plan : PlanInputs]

Orders == {p.stages[k].order : p \in Plans, k \in 1..2}

\* Release ids are fresh random strings; here 1, 2, ... in order of creation.
ReleaseIds == 1..MaxInputs

\* getStageId: `release-${releaseId}-order-${stageOrder}`
getStageId(releaseId, stageOrder) == << releaseId, stageOrder >>

StageIds == {getStageId(r, o) : r \in ReleaseIds, o \in Orders}

\* The metrics tuples the telemetry query returns: all clean, or p99 = 150.
Metrics ==
    { [p999 |-> 90, p99 |-> 80, p90 |-> 70, median |-> 50],
      [p999 |-> 90, p99 |-> 150, p90 |-> 70, median |-> 50] }

\* ------------------------------------------------------------ SLOEvaluator

getMetricValue(metrics, percentile) ==
    CASE percentile = "p999" -> metrics.p999
      [] percentile = "p99" -> metrics.p99
      [] percentile = "p90" -> metrics.p90
      [] percentile = "median" -> metrics.median

\* SloViolations with >= in place of >.
RECURSIVE SloViolationsAtLeast(_, _)
SloViolationsAtLeast(sloConfigs, metrics) ==
    IF sloConfigs = << >> THEN << >>
    ELSE LET slo == Head(sloConfigs)
             actualValue == getMetricValue(metrics, slo.percentile)
             rest == SloViolationsAtLeast(Tail(sloConfigs), metrics)
         IN IF actualValue >= slo.latency_ms
            THEN << [percentile |-> slo.percentile,
                     expected_max_ms |-> slo.latency_ms,
                     actual_ms |-> actualValue,
                     violation_margin_ms |-> actualValue - slo.latency_ms] >> \o rest
            ELSE rest

RECURSIVE SloViolations(_, _)
SloViolations(sloConfigs, metrics) ==
    IF sloConfigs = << >> THEN << >>
    ELSE LET slo == Head(sloConfigs)
             actualValue == getMetricValue(metrics, slo.percentile)
             rest == SloViolations(Tail(sloConfigs), metrics)
         IN IF actualValue > slo.latency_ms
            THEN << [percentile |-> slo.percentile,
                     expected_max_ms |-> slo.latency_ms,
                     actual_ms |-> actualValue,
                     violation_margin_ms |-> actualValue - slo.latency_ms] >> \o rest
            ELSE rest

evaluateSLOs(sloConfigs, metrics) ==
    LET violations == SloViolations(sloConfigs, metrics)
    IN [passed |-> Len(violations) = 0, violations |-> violations]

RECURSIVE parseSLOsFromPlan(_)
parseSLOsFromPlan(slos) ==
    IF slos = << >> THEN << >>
    ELSE LET slo == Head(slos)
             rest == parseSLOsFromPlan(Tail(slos))
         IN IF /\ slo.percentile \in {"p999", "p99", "p90", "median"}
               /\ slo.latency_ms > 0
            THEN << [percentile |-> slo.percentile, latency_ms |-> slo.latency_ms] >> \o rest
            ELSE rest

\* The arguments of evaluateSLOs taken on its own: lists of up to
\* MaxSloConfigs configs, and metrics below, at and above the thresholds.
SLOConfig == [percentile : {"p999", "p99", "p90", "median"}, latency_ms : {100, 120}]
SLOConfigLists == UNION {[1..n -> SLOConfig] : n \in 0..MaxSloConfigs}
ObservabilityMetrics ==
    [p999 : {100, 150}, p99 : {100, 120, 150}, p90 : {90, 120}, median : {50, 100}]

\* ------------------------------------------------------------ StageStorage

StartsWithDone(state) ==
    state \in {"done_successful", "done_failed", "done_cancelled",
               "done_failed_slo", "done_stopped_manually"}

\* handleStateTransition of StageStorage, at time t.  `alarm` is the actor's
\* alarm: armed by setAlarmIfNeeded, disarmed by clearAlarmIfNeeded.
StageHandleStateTransition(stage, newState, t) ==
    LET s0 == [stage EXCEPT !.state = newState]
        s1 == IF newState = "running" /\ stage.state = "queued"
              THEN [s0 EXCEPT !.time_started = t, !.time_elapsed = 0, !.alarm = TRUE]
              ELSE s0
        s2 == IF /\ newState \in {"done_failed", "done_successful"}
                 /\ stage.state \in {"running", "awaiting_approval"}
              THEN [s1 EXCEPT !.time_done = t,
                              !.time_elapsed = IF stage.time_started # 0
                                               THEN t - stage.time_started
                                               ELSE @,
                              !.alarm = FALSE]
              ELSE s1
    IN s2

\* getVerboseStateMessage; "" is undefined.
getVerboseStateMessage(newState, previousState) ==
    CASE previousState = "queued" /\ newState = "running" -> "Stage started"
      [] previousState = "running" /\ newState = "awaiting_approval" -> "Soak completed - awaiting approval"
      [] previousState = "awaiting_approval" /\ newState = "running" -> "Stage approved by user"
      [] previousState = "running" /\ newState = "done_successful" -> "Stage completed and auto progressed"
      [] previousState = "awaiting_approval" /\ newState = "done_successful" -> "Stage completed"
      [] previousState = "running" /\ newState = "done_failed" -> "Stage failed SLOs"
      [] previousState = "awaiting_approval" /\ newState = "done_cancelled" -> "Stage cancelled by user"
      [] previousState = "awaiting_approval" /\ newState = "done_failed" -> "Stage failed while awaiting approval"
      [] previousState = "queued" /\ newState = "done_failed" -> "Previous stage failed"
      [] previousState = "queued" /\ newState = "done_cancelled" -> "Previous stage failed or cancelled"
      [] OTHER -> ""

\* updateStageState on the stage record `stage`; `logs` is the optional
\* argument (<< >> when absent, << text >> when given).  The automatic log
\* append (this.addLog, not awaited) issues its read of the record before
\* updateStageState issues the save of the new state, so it reads the logs as
\* they were before the call; when it resumes it writes those logs plus the
\* line over the saved record's logs (updateStage).
updateStageState(stage, newState, logs, t) ==
    LET updated == StageHandleStateTransition(stage, newState, t)
        saved == [updated EXCEPT !.logs = IF logs # << >> /\ logs[1] # << >>
                                           THEN logs[1] ELSE stage.logs]
        verboseLogMessage == getVerboseStateMessage(newState, stage.state)
    IN IF verboseLogMessage = "" THEN saved
       ELSE [saved EXCEPT !.logs = stage.logs \o << verboseLogMessage >>]

\* progressStage
progressStage(stage, command, t) ==
    LET newState == IF command = "approve" THEN "done_successful" ELSE "done_cancelled"
        message == IF command = "approve" THEN "Stage approved."
                   ELSE "Stage not approved. Cancelling release..."
    IN updateStageState(stage, newState, << stage.logs \o << message >> >>, t)

\* addLog (through updateStage with only the logs changed)
addLog(stage, message) == [stage EXCEPT !.logs = @ \o << message >>]

\* alarm of StageStorage at time t: refresh the elapsed time of a running
\* stage and re-arm; otherwise return, the alarm spent.
StageAlarm(stage, t) ==
    IF ~stage.alarm THEN stage
    ELSE IF stage.state # "running" \/ stage.time_started = 0
         THEN [stage EXCEPT !.alarm = FALSE]
         ELSE [stage EXCEPT !.time_elapsed = t - stage.time_started]

\* The record POST /release/create hands to StageStorage.initialize.
NewStage(releaseId, order) ==
    [id |-> getStageId(releaseId, order), order |-> order, releaseId |-> releaseId,
     state |-> "queued", time_started |-> 0, time_elapsed |-> 0, time_done |-> 0,
     logs |-> << >>, alarm |-> FALSE]

\* ---------------------------------------------------------- ReleaseHistory

\* handleStateTransition of ReleaseHistory, at time t.
ReleaseHandleStateTransition(release, previousState, newState, t) ==
    LET r1 == IF previousState # "running" /\ newState = "running"
              THEN [release EXCEPT !.time_started = t, !.time_elapsed = 0]
              ELSE release
        done == IF r1.time_done = 0 THEN t ELSE r1.time_done
        r2 == IF previousState = "running" /\ StartsWithDone(newState)
              THEN [r1 EXCEPT !.time_done = done,
                              !.time_elapsed = IF r1.time_started # 0
                                               THEN done - r1.time_started
                                               ELSE @]
              ELSE r1
    IN [r2 EXCEPT !.state = newState]

\* The alarm of the ledger after handleStateTransition.
ReleaseAlarmAfter(alarm, previousState, newState) ==
    IF previousState # "running" /\ newState = "running" THEN TRUE
    ELSE IF previousState = "running" /\ StartsWithDone(newState) THEN FALSE
    ELSE alarm

\* findReleaseIndex: 0 for -1.
findReleaseIndex(h, id) ==
    IF \E k \in 1..Len(h.releases) : h.releases[k].id = id
    THEN CHOOSE k \in 1..Len(h.releases) :
            /\ h.releases[k].id = id
            /\ \A m \in 1..(k - 1) : h.releases[m].id # id
    ELSE 0

\* trimReleaseHistory keeping the last MAX_RELEASES entries instead of the first.
trimReleaseHistoryTail(releases) ==
    IF Len(releases) > MAX_RELEASES
    THEN SubSeq(releases, Len(releases) - MAX_RELEASES + 1, Len(releases))
    ELSE releases

trimReleaseHistory(releases) ==
    IF Len(releases) > MAX_RELEASES THEN SubSeq(releases, 1, MAX_RELEASES) ELSE releases

createRelease(h, release) ==
    [h EXCEPT !.releases = trimReleaseHistory(<< release >> \o h.releases)]

\* updateReleaseState that records an unknown id as a new entry at the head.
updateReleaseStateUpsert(h, id, state, t) ==
    LET index == findReleaseIndex(h, id)
    IN IF index = 0
       THEN [h EXCEPT !.releases =
                << [id |-> id, state |-> state, plan_record |-> ManualPlan,
                    old_version |-> "", new_version |-> "", stages |-> << >>,
                    time_created |-> t, time_started |-> 0, time_elapsed |-> 0,
                    time_done |-> 0] >> \o h.releases]
       ELSE LET previousState == h.releases[index].state
            IN [releases |-> [h.releases EXCEPT ![index] =
                                 ReleaseHandleStateTransition(@, previousState, state, t)],
                alarm |-> ReleaseAlarmAfter(h.alarm, previousState, state)]

\* updateReleaseState: the ledger afterwards (unchanged when the id is unknown).
updateReleaseState(h, id, state, t) ==
    LET index == findReleaseIndex(h, id)
    IN IF index = 0 THEN h
       ELSE LET previousState == h.releases[index].state
            IN [releases |-> [h.releases EXCEPT ![index] =
                                 ReleaseHandleStateTransition(@, previousState, state, t)],
                alarm |-> ReleaseAlarmAfter(h.alarm, previousState, state)]

\* updateReleaseState's return value.
updateReleaseStateResult(h, id) == findReleaseIndex(h, id) # 0

IsActive(release) == release.state \in {"not_started", "running"}

\* getActiveRelease: << >> for undefined, << release >> otherwise.
\* getActiveRelease looking for a running release only.
getActiveReleaseRunningOnly(h) ==
    LET running == SelectSeq(h.releases, LAMBDA r : r.state = "running")
    IN IF running = << >> THEN << >> ELSE << Head(running) >>

getActiveRelease(h) ==
    IF \E k \in 1..Len(h.releases) : IsActive(h.releases[k])
    THEN << h.releases[CHOOSE k \in 1..Len(h.releases) :
                          /\ IsActive(h.releases[k])
                          /\ \A m \in 1..(k - 1) : ~IsActive(h.releases[m])] >>
    ELSE << >>

hasActiveRelease(h) == getActiveRelease(h) # << >>

\* getRelease: << >> for undefined, << release >> otherwise.
getRelease(h, id) ==
    LET index == findReleaseIndex(h, id)
    IN IF index = 0 THEN << >> ELSE << h.releases[index] >>

\* removeRelease: the ledger afterwards.
removeRelease(h, id) ==
    [h EXCEPT !.releases = SelectSeq(h.releases, LAMBDA r : r.id # id)]

\* alarm of ReleaseHistory at time t.
ReleaseAlarm(h, t) ==
    IF ~h.alarm THEN h
    ELSE LET ticking(r) == r.state = "running" /\ r.time_started # 0
         IN [releases |-> [k \in 1..Len(h.releases) |->
                              IF ticking(h.releases[k])
                              THEN [h.releases[k] EXCEPT !.time_elapsed = t - h.releases[k].time_started]
                              ELSE h.releases[k]],
             alarm |-> \E k \in 1..Len(h.releases) : ticking(h.releases[k])]

\* ------------------------------------------------------------------ state

VARIABLES
    plan,           \* PlanStorage "main"
    history,        \* ReleaseHistory: [releases, alarm]
    stages,         \* StageStorage "main" of every initialized stage id
    wf,             \* the ReleaseWorkflow instance of every release id
    events,         \* events sent to each instance and not yet consumed
    deployments,    \* the deployment controller's calls, in order
    now,            \* the clock, in seconds
    pendingCreates, \* create requests past the hasActiveRelease check
    pendingStarts,  \* start requests past RELEASE_WORKFLOW.create
    pendingStops,   \* stop requests past the getActiveRelease check
    pendingDeletes, \* delete requests past the getActiveRelease check
    nextId,         \* the next fresh release id
    nInputs,        \* the ingress requests accepted so far
    nFailures,      \* the external calls failed so far
    evaluation      \* a call of SLOEvaluator.evaluateSLOs: arguments and result

vars == << evaluation, plan, history, stages, wf, events, deployments, now, pendingCreates,
           pendingStarts, pendingStops, pendingDeletes, nextId, nInputs, nFailures >>

ingressVars == << pendingCreates, pendingStarts, pendingStops, pendingDeletes, nextId,
                 nInputs >>

\* A workflow instance that was not created.
NoWorkflow ==
    [pc |-> "none", release |-> << >>, idx |-> 0, i |-> 0, j |-> 0,
     soak |-> << >>, cancelId |-> 0, exit |-> "none", failed |-> FALSE]

\* No call of evaluateSLOs under inspection.
NoEvaluation == [sloConfigs |-> << >>, metrics |-> << >>, result |-> << >>]

\* The stores and the orchestrator after construction.
InitStores ==
    /\ plan \in Plans
    /\ history = [releases |-> << >>, alarm |-> FALSE]
    /\ stages = << >>
    /\ wf = [id \in ReleaseIds |-> NoWorkflow]
    /\ events = [id \in ReleaseIds |-> << >>]
    /\ deployments = << >>
    /\ now = 1
    /\ pendingCreates = 0
    /\ pendingStarts = {}
    /\ pendingStops = {}
    /\ pendingDeletes = {}
    /\ nextId = 1
    /\ nInputs = 0
    /\ nFailures = 0

Init ==
    /\ InitStores
    /\ evaluation = NoEvaluation

\* An ingress request can pass its checks while the bound allows it.
InputAllowed == nInputs < MaxInputs

\* An external call succeeds (ok) or fails; at most MaxFailures fail.
CallOutcome(ok) == ok \/ nFailures < MaxFailures
Failures(ok) == IF ok THEN nFailures ELSE nFailures + 1

\* ------------------------------------------------- deployment controller

\* setDeploymentTarget with the two percentages exchanged.
setDeploymentTargetSwapped(releaseId, target_percent, ok) ==
    [release |-> releaseId, kind |-> "split", new_percent |-> 100 - target_percent,
     old_percent |-> target_percent, ok |-> ok]

\* setDeploymentTarget
setDeploymentTarget(releaseId, target_percent, ok) ==
    [release |-> releaseId, kind |-> "split", new_percent |-> target_percent,
     old_percent |-> 100 - target_percent, ok |-> ok]

\* finishDeployment
finishDeployment(releaseId, ok) ==
    [release |-> releaseId, kind |-> "finish", new_percent |-> 100,
     old_percent |-> 0, ok |-> ok]

\* revertDeployment
revertDeployment(releaseId, ok) ==
    [release |-> releaseId, kind |-> "revert", new_percent |-> 0,
     old_percent |-> 100, ok |-> ok]

\* --------------------------------------------------------- ReleaseWorkflow

\* stage.updateStageState(state) on the actor of stage id sid (null: no-op).
StageUpdate(st, sid, state, t) ==
    IF sid \in DOMAIN st
    THEN [st EXCEPT ![sid] = updateStageState(@, state, << >>, t)]
    ELSE st

RECURSIVE updateStagesStateBad(_, _, _, _, _, _)
updateStagesStateBad(st, releaseId, planStages, state, excludeCompleted, t) ==
    IF planStages = << >> THEN st
    ELSE LET sid == getStageId(releaseId, Head(planStages).order)
             st1 == IF /\ sid \in DOMAIN st
                       /\ (~excludeCompleted \/ ~StartsWithDone(st[sid].state))
                    THEN StageUpdate(st, sid, state, t)
                    ELSE st
         IN updateStagesStateBad(st1, releaseId, Tail(planStages), state,
                                 excludeCompleted, t)

\* The locals of processStages for the instance w at its current stage.
StageRef(w) == w.release[1].stages[w.idx]
\* stagePlan looked up in the plan store instead of the release's plan_record.
StagePlanFromStore(w) ==
    LET ps == plan.stages
    IN ps[CHOOSE k \in 1..Len(ps) :
             /\ ps[k].order = StageRef(w).order
             /\ \A m \in 1..(k - 1) : ps[m].order # StageRef(w).order]

StagePlan(w) ==
    LET ps == w.release[1].plan_record.stages
    IN ps[CHOOSE k \in 1..Len(ps) :
             /\ ps[k].order = StageRef(w).order
             /\ \A m \in 1..(k - 1) : ps[m].order # StageRef(w).order]

Max(a, b) == IF a > b THEN a ELSE b

\* release?.plan_record?.polling_fraction || 0.5
PollingFraction(w) ==
    IF w.soak = << >> \/ w.soak[1].plan_record.polling_fraction.num = 0
    THEN Fraction(1, 2)
    ELSE w.soak[1].plan_record.polling_fraction

\* intervalTimeSeconds = max(1, floor(soak_time * pollingFraction))
IntervalTimeSeconds(w) ==
    Max(1, (StagePlan(w).soak_time * PollingFraction(w).num) \div PollingFraction(w).den)

\* The loop bound rounded up instead of down.
SoakRoundsCeil(w) ==
    (StagePlan(w).soak_time + IntervalTimeSeconds(w) - 1) \div IntervalTimeSeconds(w)

\* floor(soak_time / intervalTimeSeconds)
SoakRounds(w) == StagePlan(w).soak_time \div IntervalTimeSeconds(w)

\* isLastStage, and whether handleStageApproval waits for a command.
IsLastStage(w) ==
    LET ps == w.release[1].plan_record.stages
    IN \A k \in 1..Len(ps) : ps[k].order <= StageRef(w).order
\* The test of handleStageApproval without isLastStage.
NeedsApprovalOfLast(w) == ~StagePlan(w).auto_progress

NeedsApproval(w) == ~StagePlan(w).auto_progress /\ ~IsLastStage(w)

\* After a clean soak, straight to the "done" step.
AfterSoakNoGate(w) == "stage_done"

\* Where processStages goes after a clean soak.
AfterSoak(w) == IF NeedsApproval(w) THEN "set_awaiting" ELSE "stage_done"

\* run(): getRelease; return if the release is unknown.
WfRun(id) ==
    /\ wf[id].pc = "created"
    /\ LET release == getRelease(history, id)
       IN wf' = [wf EXCEPT ![id] =
                    IF release = << >> THEN [@ EXCEPT !.pc = "done"]
                    ELSE [@ EXCEPT !.pc = "set_running", !.release = release]]
    /\ UNCHANGED << evaluation, plan, history, stages, events, deployments, now, ingressVars, nFailures >>

\* step "update release state to running", then the first iteration of the
\* loop over release.stages.
WfSetRunning(id) ==
    /\ wf[id].pc = "set_running"
    /\ history' = updateReleaseState(history, id, "running", now)
    /\ wf' = [wf EXCEPT ![id] =
                 IF Len(@.release[1].stages) = 0 THEN [@ EXCEPT !.pc = "complete"]
                 ELSE [@ EXCEPT !.pc = "stage_start", !.idx = 1]]
    /\ UNCHANGED << evaluation, plan, stages, events, deployments, now, ingressVars, nFailures >>

\* step "<stage> - start": the stage to running, then the traffic split; then
\* processStageSoak reads the release for the polling configuration.
WfStageStart(id) ==
    /\ wf[id].pc = "stage_start"
    /\ \E ok \in BOOLEAN :
        /\ CallOutcome(ok)
        /\ nFailures' = Failures(ok)
        /\ stages' = StageUpdate(stages, StageRef(wf[id]).id, "running", now)
        /\ deployments' = Append(deployments,
               setDeploymentTarget(id, StagePlan(wf[id]).target_percent, ok))
        /\ wf' = [wf EXCEPT ![id] =
               IF ~ok THEN [@ EXCEPT !.pc = "catch"]
               ELSE LET w == [@ EXCEPT !.soak = getRelease(history, id), !.i = 0, !.j = 0]
                    IN [w EXCEPT !.pc = IF SoakRounds(w) = 0 THEN AfterSoak(w) ELSE "tick"]]
    /\ UNCHANGED << evaluation, plan, history, events, now, ingressVars >>

\* One pass of the inner loop of processStageSoak: the cancellation check,
\* then step.sleep of one second, during which the alarms of the ledger and
\* of the stages fire.
WfTick(id) ==
    /\ wf[id].pc = "tick"
    /\ LET release == getRelease(history, id)
           w == wf[id]
       IN IF release = << >> \/ release[1].state # "running"
          THEN /\ wf' = [wf EXCEPT ![id] =
                            [@ EXCEPT !.pc = "ext_cancel",
                                      !.cancelId = IF release = << >> THEN 0 ELSE release[1].id]]
               /\ UNCHANGED << history, stages, now >>
          ELSE /\ now' = now + 1
               /\ history' = ReleaseAlarm(history, now + 1)
               /\ stages' = [sid \in DOMAIN stages |-> StageAlarm(stages[sid], now + 1)]
               /\ wf' = [wf EXCEPT ![id] =
                            IF w.j + 1 < IntervalTimeSeconds(w)
                            THEN [@ EXCEPT !.j = w.j + 1]
                            ELSE [@ EXCEPT !.j = 0, !.pc = "slo_check"]]
    /\ UNCHANGED << evaluation, plan, events, deployments, ingressVars, nFailures >>

\* The end of a polling round: getWallTimes (which may throw), then the SLO
\* evaluation; on a violation the violations are logged (addLog).
WfSloCheck(id) ==
    /\ wf[id].pc = "slo_check"
    /\ LET w == wf[id]
           sid == StageRef(w).id
           nextRound == IF w.i + 1 < SoakRounds(w)
                        THEN [w EXCEPT !.i = w.i + 1, !.pc = "tick"]
                        ELSE [w EXCEPT !.i = 0, !.pc = AfterSoak(w)]
       IN \/ /\ nFailures < MaxFailures
             /\ nFailures' = nFailures + 1
             /\ wf' = [wf EXCEPT ![id] = [w EXCEPT !.pc = "catch"]]
             /\ UNCHANGED stages
          \/ /\ w.soak = << >>
             /\ wf' = [wf EXCEPT ![id] = [w EXCEPT !.pc = "catch"]]
             /\ UNCHANGED << stages, nFailures >>
          \/ /\ w.soak # << >>
             /\ \E wallTimes \in Metrics :
                  LET sloConfigs == parseSLOsFromPlan(w.soak[1].plan_record.slos)
                      sloResult == evaluateSLOs(sloConfigs, wallTimes)
                  IN IF Len(sloConfigs) > 0 /\ ~sloResult.passed
                     THEN /\ stages' = IF sid \in DOMAIN stages
                                       THEN [stages EXCEPT ![sid] = addLog(@, "SLO violations")]
                                       ELSE stages
                          /\ wf' = [wf EXCEPT ![id] = [w EXCEPT !.pc = "slo_violation"]]
                     ELSE /\ wf' = [wf EXCEPT ![id] = nextRound]
                          /\ UNCHANGED stages
             /\ UNCHANGED nFailures
    /\ UNCHANGED << evaluation, plan, history, events, deployments, now, ingressVars >>

\* The plan stages of `release` with order > (strict) or >= currentStageOrder.
RemainingStages(release, currentStageOrder, strict) ==
    SelectSeq(release.plan_record.stages,
              LAMBDA s : IF strict THEN s.order > currentStageOrder
                         ELSE s.order >= currentStageOrder)

\* step "handle SLO violation"
WfHandleSLOViolation(id) ==
    /\ wf[id].pc = "slo_violation"
    /\ LET w == wf[id]
           release == getRelease(history, w.soak[1].id)
           st1 == StageUpdate(stages, StageRef(w).id, "done_failed", now)
       IN IF release = << >> THEN UNCHANGED << history, stages >>
          ELSE /\ stages' = updateStagesStateBad(st1, w.soak[1].id,
                               RemainingStages(release[1], StageRef(w).order, TRUE),
                               "done_cancelled", TRUE, now)
               /\ history' = updateReleaseState(history, w.soak[1].id, "done_failed_slo", now)
    /\ wf' = [wf EXCEPT ![id] = [@ EXCEPT !.pc = "complete", !.exit = "slo_violation"]]
    /\ UNCHANGED << evaluation, plan, events, deployments, now, ingressVars, nFailures >>

\* step "handle external cancellation", for the release id the caller passes
\* (release?.id || "" from the soak loop, releaseId from the approval gate).
WfHandleExternalCancellation(id) ==
    /\ wf[id].pc = "ext_cancel"
    /\ LET w == wf[id]
           release == IF w.cancelId = 0 THEN << >> ELSE getRelease(history, w.cancelId)
       IN IF release = << >>
          THEN /\ wf' = [wf EXCEPT ![id] =
                            [@ EXCEPT !.pc = "complete", !.exit = "external_cancellation"]]
               /\ UNCHANGED << history, stages, deployments, nFailures >>
          ELSE \E ok \in BOOLEAN :
               /\ CallOutcome(ok)
               /\ nFailures' = Failures(ok)
               /\ stages' = updateStagesStateBad(stages, w.cancelId,
                               RemainingStages(release[1], StageRef(w).order, FALSE),
                               "done_cancelled", TRUE, now)
               /\ history' = updateReleaseState(history, w.cancelId,
                                                "done_stopped_manually", now)
               /\ deployments' = Append(deployments, revertDeployment(w.cancelId, ok))
               /\ wf' = [wf EXCEPT ![id] =
                            [@ EXCEPT !.pc = IF ok THEN "complete" ELSE "catch",
                                      !.exit = "external_cancellation"]]
    /\ UNCHANGED << evaluation, plan, events, now, ingressVars >>

\* step "<stage> - set awaiting approval", then the check whether the release
\* was stopped meanwhile.
WfSetAwaiting(id) ==
    /\ wf[id].pc = "set_awaiting"
    /\ stages' = StageUpdate(stages, StageRef(wf[id]).id, "awaiting_approval", now)
    /\ LET currentRelease == getRelease(history, id)
       IN wf' = [wf EXCEPT ![id] =
                    IF currentRelease = << >> \/ currentRelease[1].state # "running"
                    THEN [@ EXCEPT !.pc = "ext_cancel", !.cancelId = id]
                    ELSE [@ EXCEPT !.pc = "wait_event"]]
    /\ UNCHANGED << evaluation, plan, history, events, deployments, now, ingressVars, nFailures >>

\* The position in `evs` of the first event of the given type; 0 when none.
FirstEvent(evs, type) ==
    IF \E k \in 1..Len(evs) : evs[k].type = type
    THEN CHOOSE k \in 1..Len(evs) :
            /\ evs[k].type = type
            /\ \A m \in 1..(k - 1) : evs[m].type # type
    ELSE 0

RemoveAt(seq, k) == SubSeq(seq, 1, k - 1) \o SubSeq(seq, k + 1, Len(seq))

\* step.waitForEvent of type "<stage id>-user-progress-command": takes the
\* earliest event of that type sent to the instance.
WfWaitForEvent(id) ==
    /\ wf[id].pc = "wait_event"
    /\ LET k == FirstEvent(events[id], StageRef(wf[id]).id)
       IN /\ k # 0
          /\ events' = [events EXCEPT ![id] = RemoveAt(@, k)]
          /\ wf' = [wf EXCEPT ![id] =
                       [@ EXCEPT !.pc = IF events[id][k].payload = "approve"
                                        THEN "stage_done" ELSE "deny"]]
    /\ UNCHANGED << evaluation, plan, history, stages, deployments, now, ingressVars, nFailures >>

\* step "Cancel stage <stage> and remaining stages" (the deny branch)
WfDeny(id) ==
    /\ wf[id].pc = "deny"
    /\ \E ok \in BOOLEAN :
        /\ CallOutcome(ok)
        /\ nFailures' = Failures(ok)
        /\ LET w == wf[id]
               st1 == StageUpdate(stages, StageRef(w).id, "done_cancelled", now)
           IN stages' = updateStagesStateBad(st1, id,
                           RemainingStages(w.release[1], StageRef(w).order, TRUE),
                           "done_cancelled", TRUE, now)
        /\ history' = updateReleaseState(history, id, "done_stopped_manually", now)
        /\ deployments' = Append(deployments, revertDeployment(id, ok))
        /\ wf' = [wf EXCEPT ![id] =
                     [@ EXCEPT !.pc = IF ok THEN "complete" ELSE "catch", !.exit = "denied"]]
    /\ UNCHANGED << evaluation, plan, events, now, ingressVars >>

\* step "<stage> - done", then the next iteration of the loop
WfStageDone(id) ==
    /\ wf[id].pc = "stage_done"
    /\ stages' = StageUpdate(stages, StageRef(wf[id]).id, "done_successful", now)
    /\ wf' = [wf EXCEPT ![id] =
                 IF @.idx < Len(@.release[1].stages)
                 THEN [@ EXCEPT !.pc = "stage_start", !.idx = @ + 1]
                 ELSE [@ EXCEPT !.pc = "complete"]]
    /\ UNCHANGED << evaluation, plan, history, events, deployments, now, ingressVars, nFailures >>

\* step "complete release"
WfComplete(id) ==
    /\ wf[id].pc = "complete"
    /\ \E ok \in BOOLEAN :
        /\ CallOutcome(ok)
        /\ nFailures' = Failures(ok)
        /\ LET specificRelease == getRelease(history, id)
           IN IF /\ specificRelease # << >>
                 /\ specificRelease[1].state \in {"done_stopped_manually", "done_failed_slo"}
              THEN /\ deployments' = Append(deployments, revertDeployment(id, ok))
                   /\ UNCHANGED history
              ELSE /\ history' = updateReleaseState(history, id, "done_successful", now)
                   /\ deployments' = Append(deployments, finishDeployment(id, ok))
        /\ wf' = [wf EXCEPT ![id] = [@ EXCEPT !.pc = IF ok THEN "done" ELSE "catch"]]
    /\ UNCHANGED << evaluation, plan, stages, events, now, ingressVars >>

\* catch: step "handle workflow error and revert deployment", then rethrow
WfCatch(id) ==
    /\ wf[id].pc = "catch"
    /\ \E ok \in BOOLEAN :
        /\ CallOutcome(ok)
        /\ nFailures' = Failures(ok)
        /\ LET currentRelease == getRelease(history, id)
           IN IF currentRelease = << >> THEN UNCHANGED << history, stages >>
              ELSE /\ stages' = updateStagesStateBad(stages, id,
                                   currentRelease[1].plan_record.stages,
                                   "done_cancelled", TRUE, now)
                   /\ history' = updateReleaseState(history, id, "error", now)
        /\ deployments' = Append(deployments, revertDeployment(id, ok))
        /\ wf' = [wf EXCEPT ![id] = [@ EXCEPT !.pc = "done", !.failed = TRUE]]
    /\ UNCHANGED << evaluation, plan, events, now, ingressVars >>

Workflow(id) ==
    \/ WfRun(id)
    \/ WfSetRunning(id)
    \/ WfStageStart(id)
    \/ WfTick(id)
    \/ WfSloCheck(id)
    \/ WfHandleSLOViolation(id)
    \/ WfHandleExternalCancellation(id)
    \/ WfSetAwaiting(id)
    \/ WfWaitForEvent(id)
    \/ WfDeny(id)
    \/ WfStageDone(id)
    \/ WfComplete(id)
    \/ WfCatch(id)

\* ---------------------------------------------------------------- ingress

\* A request that is answered with an error before it wrote anything.
Rejected == UNCHANGED vars

\* POST /release/create, up to the hasActiveRelease check: 409 when a release
\* is active.
CreateCheck ==
    IF hasActiveRelease(history)
    THEN Rejected
    ELSE /\ InputAllowed
         /\ nInputs' = nInputs + 1
         /\ pendingCreates' = pendingCreates + 1
         /\ UNCHANGED << evaluation, plan, history, stages, wf, events, deployments, now,
                         pendingStarts, pendingStops, pendingDeletes, nextId, nFailures >>

\* The record POST /release/create builds.
NewRelease(releaseId, p, t) ==
    [id |-> releaseId, state |-> "not_started", plan_record |-> p,
     old_version |-> "old", new_version |-> "new",
     stages |-> [k \in 1..Len(p.stages) |->
                    [id |-> getStageId(releaseId, p.stages[k].order),
                     order |-> p.stages[k].order]],
     time_created |-> t, time_started |-> 0, time_elapsed |-> 0, time_done |-> 0]

\* POST /release/create after the check: read the plan, initialize one stage
\* per plan stage, then createRelease.
CreateCommit ==
    /\ pendingCreates > 0
    /\ pendingCreates' = pendingCreates - 1
    /\ nextId' = nextId + 1
    /\ LET newRelease == NewRelease(nextId, plan, now)
           fresh == {newRelease.stages[k].id : k \in 1..Len(newRelease.stages)}
       IN /\ stages' = [sid \in DOMAIN stages \cup fresh |->
                           IF sid \in fresh THEN NewStage(sid[1], sid[2]) ELSE stages[sid]]
          /\ history' = createRelease(history, newRelease)
    /\ UNCHANGED << evaluation, plan, wf, events, deployments, now, pendingStarts, pendingStops,
                    pendingDeletes, nInputs, nFailures >>

\* POST /release/active, command "start": the checks (404 without an active
\* release, 400 unless it is not_started) and RELEASE_WORKFLOW.create, which
\* throws when the instance id exists.
StartRequest ==
    LET activeRelease == getActiveRelease(history)
    IN IF \/ activeRelease = << >>
          \/ activeRelease[1].state # "not_started"
          \/ wf[activeRelease[1].id].pc # "none"
       THEN Rejected
       ELSE /\ InputAllowed
            /\ nInputs' = nInputs + 1
            /\ wf' = [wf EXCEPT ![activeRelease[1].id] = [NoWorkflow EXCEPT !.pc = "created"]]
            /\ pendingStarts' = pendingStarts \cup {activeRelease[1].id}
            /\ UNCHANGED << evaluation, plan, history, stages, events, deployments, now,
                            pendingCreates, pendingStops, pendingDeletes, nextId, nFailures >>

\* command "start", after the instance was created: updateReleaseState(running).
\* (The "release-start" event the handler sends next is awaited by no step.)
StartWrite(id) ==
    /\ id \in pendingStarts
    /\ pendingStarts' = pendingStarts \ {id}
    /\ history' = updateReleaseState(history, id, "running", now)
    /\ UNCHANGED << evaluation, plan, stages, wf, events, deployments, now, pendingCreates,
                    pendingStops, pendingDeletes, nextId, nInputs, nFailures >>

\* The stop checks without the test of the release's state.
StopCheckAnyState ==
    LET activeRelease == getActiveRelease(history)
    IN IF activeRelease = << >>
       THEN Rejected
       ELSE /\ InputAllowed
            /\ nInputs' = nInputs + 1
            /\ pendingStops' = pendingStops \cup
                   {[id |-> activeRelease[1].id, stages |-> activeRelease[1].stages]}
            /\ UNCHANGED << evaluation, plan, history, stages, wf, events, deployments, now,
                            pendingCreates, pendingStarts, pendingDeletes, nextId, nFailures >>

\* command "stop": the checks (404 without an active release, 400 unless it
\* is running)
StopCheck ==
    LET activeRelease == getActiveRelease(history)
    IN IF activeRelease = << >> \/ activeRelease[1].state # "running"
       THEN Rejected
       ELSE /\ InputAllowed
            /\ nInputs' = nInputs + 1
            /\ pendingStops' = pendingStops \cup
                   {[id |-> activeRelease[1].id, stages |-> activeRelease[1].stages]}
            /\ UNCHANGED << evaluation, plan, history, stages, wf, events, deployments, now,
                            pendingCreates, pendingStarts, pendingDeletes, nextId, nFailures >>

\* An instance takes events until its run has ended.
sendEvent(evs, id, type, payload) ==
    IF wf[id].pc = "done" THEN evs
    ELSE [evs EXCEPT ![id] = Append(@, [type |-> type, payload |-> payload])]

RECURSIVE DenyAll(_, _, _)
DenyAll(evs, id, stageRefs) ==
    IF stageRefs = << >> THEN evs
    ELSE DenyAll(sendEvent(evs, id, getStageId(id, Head(stageRefs).order), "deny"),
                 id, Tail(stageRefs))

\* command "stop", after the checks: updateReleaseState(done_stopped_manually),
\* then a deny event for every stage of the release; RELEASE_WORKFLOW.get
\* throws when the instance does not exist.
StopCommit(req) ==
    /\ req \in pendingStops
    /\ pendingStops' = pendingStops \ {req}
    /\ history' = updateReleaseState(history, req.id, "done_stopped_manually", now)
    /\ events' = IF wf[req.id].pc = "none" THEN events
                 ELSE DenyAll(events, req.id, req.stages)
    /\ UNCHANGED << evaluation, plan, stages, wf, deployments, now, pendingCreates, pendingStarts,
                    pendingDeletes, nextId, nInputs, nFailures >>

\* DELETE /release/active: the checks (404 without an active release, 409
\* unless it is not_started)
DeleteCheck ==
    LET activeRelease == getActiveRelease(history)
    IN IF activeRelease = << >> \/ activeRelease[1].state # "not_started"
       THEN Rejected
       ELSE /\ InputAllowed
            /\ nInputs' = nInputs + 1
            /\ pendingDeletes' = pendingDeletes \cup {activeRelease[1].id}
            /\ UNCHANGED << evaluation, plan, history, stages, wf, events, deployments, now,
                            pendingCreates, pendingStarts, pendingStops, nextId, nFailures >>

\* DELETE /release/active, after the checks: removeRelease
DeleteCommit(id) ==
    /\ id \in pendingDeletes
    /\ pendingDeletes' = pendingDeletes \ {id}
    /\ history' = removeRelease(history, id)
    /\ UNCHANGED << evaluation, plan, stages, wf, events, deployments, now, pendingCreates,
                    pendingStarts, pendingStops, nextId, nInputs, nFailures >>

\* POST /stage/:stageId with body approve or deny: progressStage (404 when
\* the stage is unknown), then the event to the release's workflow instance
\* (RELEASE_WORKFLOW.get throws when there is none).
StageCommand(sid, command) ==
    IF sid \notin DOMAIN stages
    THEN Rejected
    ELSE /\ InputAllowed
         /\ nInputs' = nInputs + 1
         /\ stages' = [stages EXCEPT ![sid] = progressStage(@, command, now)]
         /\ events' = IF wf[stages[sid].releaseId].pc = "none" THEN events
                      ELSE sendEvent(events, stages[sid].releaseId, sid, command)
         /\ UNCHANGED << evaluation, plan, history, wf, deployments, now, pendingCreates, pendingStarts,
                         pendingStops, pendingDeletes, nextId, nFailures >>

\* PlanStorage.updatePlan: { ...plan, time_last_saved }, stored under "main".
updatePlan(p, t) == [p EXCEPT !.time_last_saved = t]

\* PUT /plan: 400 unless the body has a stages and a slos array; otherwise
\* updatePlan.
PutPlan(body) ==
    IF ~body.arrays
    THEN Rejected
    ELSE /\ InputAllowed
         /\ nInputs' = nInputs + 1
         /\ plan' = updatePlan(body.plan, now)
         /\ UNCHANGED << evaluation, history, stages, wf, events, deployments, now, pendingCreates,
                         pendingStarts, pendingStops, pendingDeletes, nextId, nFailures >>

Ingress ==
    \/ CreateCheck
    \/ CreateCommit
    \/ StartRequest
    \/ \E id \in ReleaseIds : StartWrite(id)
    \/ StopCheck
    \/ \E req \in pendingStops : StopCommit(req)
    \/ DeleteCheck
    \/ \E id \in ReleaseIds : DeleteCommit(id)
    \/ \E sid \in StageIds, command \in {"approve", "deny"} : StageCommand(sid, command)

Next ==
    \/ Ingress
    \/ \E id \in ReleaseIds : Workflow(id)

Spec == Init /\ [][Next]_vars

\* The scenarios of an operator who follows the dashboard: approve and deny
\* are sent only to a stage that is awaiting approval, and no stop is
\* requested.  Every behaviour of SpecGate is a behaviour of Spec.
GateCommand(sid, command) ==
    /\ sid \in DOMAIN stages
    /\ stages[sid].state = "awaiting_approval"
    /\ StageCommand(sid, command)

NextGate ==
    \/ CreateCheck
    \/ CreateCommit
    \/ StartRequest
    \/ \E id \in ReleaseIds : StartWrite(id)
    \/ DeleteCheck
    \/ \E id \in ReleaseIds : DeleteCommit(id)
    \/ \E sid \in StageIds, command \in {"approve", "deny"} : GateCommand(sid, command)
    \/ \E id \in ReleaseIds : Workflow(id)

SpecGate == Init /\ [][NextGate]_vars

\* The scenarios in which the only command sent to a stage is the deny the
\* stop handler sends: no POST /stage/:stageId.  Every behaviour of SpecStop
\* is a behaviour of Spec.
NextStop ==
    \/ CreateCheck
    \/ CreateCommit
    \/ StartRequest
    \/ \E id \in ReleaseIds : StartWrite(id)
    \/ StopCheck
    \/ \E req \in pendingStops : StopCommit(req)
    \/ DeleteCheck
    \/ \E id \in ReleaseIds : DeleteCommit(id)
    \/ \E id \in ReleaseIds : Workflow(id)

SpecStop == Init /\ [][NextStop]_vars

\* The scenarios in which approve and deny are sent only too early: to a
\* stage that is queued or running (soaking), never to one that is awaiting
\* approval, and no stop is requested.  Every behaviour of SpecEarly is a
\* behaviour of Spec.
EarlyCommand(sid, command) ==
    /\ sid \in DOMAIN stages
    /\ stages[sid].state \in {"queued", "running"}
    /\ StageCommand(sid, command)

NextEarly ==
    \/ CreateCheck
    \/ CreateCommit
    \/ StartRequest
    \/ \E id \in ReleaseIds : StartWrite(id)
    \/ DeleteCheck
    \/ \E id \in ReleaseIds : DeleteCommit(id)
    \/ \E sid \in StageIds, command \in {"approve", "deny"} : EarlyCommand(sid, command)
    \/ \E id \in ReleaseIds : Workflow(id)

SpecEarly == Init /\ [][NextEarly]_vars

\* The soak loop on its inputs: one-stage plans with every soak time of
\* 1..MaxSoak and every polling fraction n/d, 1 <= n <= d <= MaxSoak; a
\* release is created and started and its orchestrator runs, with no stop,
\* delete or stage command.
SoakPlan(soak, n, d) ==
    [stages |-> << PlanStage(1, 100, soak, TRUE) >>,
     slos |-> << [percentile |-> "p99", latency_ms |-> 100] >>,
     polling_fraction |-> Fraction(n, d),
     time_last_saved |-> 0]

SoakPlans ==
    {SoakPlan(t[1], t[2], t[3]) :
        t \in {u \in (1..MaxSoak) \X (1..MaxSoak) \X (1..MaxSoak) : u[2] <= u[3]}}

InitSoak ==
    /\ plan \in SoakPlans
    /\ history = [releases |-> << >>, alarm |-> FALSE]
    /\ stages = << >>
    /\ wf = [id \in ReleaseIds |-> NoWorkflow]
    /\ events = [id \in ReleaseIds |-> << >>]
    /\ deployments = << >>
    /\ now = 1
    /\ pendingCreates = 0
    /\ pendingStarts = {}
    /\ pendingStops = {}
    /\ pendingDeletes = {}
    /\ nextId = 1
    /\ nInputs = 0
    /\ nFailures = 0
    /\ evaluation = NoEvaluation

NextSoak ==
    \/ CreateCheck
    \/ CreateCommit
    \/ StartRequest
    \/ \E id \in ReleaseIds : StartWrite(id)
    \/ \E id \in ReleaseIds :
          \/ WfRun(id)
          \/ WfSetRunning(id)
          \/ WfStageStart(id)
          \/ WfTick(id)
          \/ WfSloCheck(id)
          \/ WfHandleSLOViolation(id)
          \/ WfStageDone(id)
          \/ WfComplete(id)
          \/ WfCatch(id)

SpecSoak == InitSoak /\ [][NextSoak]_vars

\* ReleaseHistory on its own: createRelease (or addRelease) called over and
\* over with fresh releases.
AddRelease ==
    /\ nextId <= MaxCreates
    /\ history' = createRelease(history, NewRelease(nextId, plan, now))
    /\ nextId' = nextId + 1
    /\ UNCHANGED << evaluation, plan, stages, wf, events, deployments, now, pendingCreates,
                    pendingStarts, pendingStops, pendingDeletes, nInputs, nFailures >>

SpecHistory == Init /\ [][AddRelease]_vars

\* ------------------------------------------------------ restart and replay

\* When the process of an instance restarts, the engine calls run() again on
\* the same instance: a step.do, step.sleep or step.waitForEvent that had
\* completed returns its recorded result without running its body, and the
\* code of run() between the steps runs again.  The replay is one step here.
\* It is modelled for an instance on the path without a failure, a stop or a
\* denial so far (exit = "none", not in the catch block).

\* The instance w with its loop at the s-th stage reference.
AtStage(w, s) == [w EXCEPT !.idx = s]

\* The s-th iteration of the loop over release.stages had ended.
StagePassed(w, s) == s < w.idx \/ w.pc = "complete"

\* Before the restart, processStageSoak of the s-th stage had gone through
\* at least one SLO check.
SloChecked(w, s) ==
    /\ SoakRounds(AtStage(w, s)) > 0
    /\ \/ StagePassed(w, s)
       \/ s = w.idx /\ (w.i > 0 \/ w.pc \in {"set_awaiting", "wait_event", "stage_done"})

\* Before the restart, the s-th stage had gone through at least one check of
\* the release state: in the soak loop, or after "set awaiting approval".
CancelChecked(w, s) ==
    \/ SloChecked(w, s)
    \/ /\ s = w.idx
       /\ SoakRounds(AtStage(w, s)) > 0
       /\ (w.pc = "tick" /\ w.j > 0) \/ w.pc = "slo_check"
    \/ /\ NeedsApproval(AtStage(w, s))
       /\ StagePassed(w, s) \/ (s = w.idx /\ w.pc \in {"wait_event", "stage_done"})

\* run() called again for the instance id after a restart.
WfRestart(id) ==
    /\ wf[id].pc \in {"set_running", "stage_start", "tick", "slo_check", "set_awaiting",
                      "wait_event", "stage_done", "complete"}
    /\ wf[id].exit = "none"
    /\ nFailures < MaxFailures
    /\ LET w == wf[id]
           release == getRelease(history, id)
           refs == IF release = << >> THEN {} ELSE 1..Len(release[1].stages)
           w1 == [w EXCEPT !.release = release,
                           !.soak = IF w.soak = << >> THEN << >> ELSE release]
           cancelled == {s \in refs : CancelChecked(w1, s)}
           checked == {s \in refs : SloChecked(w1, s)}
       IN \* run(): the release is not in the ledger any more
          \/ /\ release = << >>
             /\ wf' = [wf EXCEPT ![id] = [w EXCEPT !.pc = "done"]]
             /\ nFailures' = nFailures + 1
             /\ UNCHANGED stages
          \* the first check of the release state finds it not running
          \/ /\ release # << >>
             /\ release[1].state # "running"
             /\ cancelled # {}
             /\ LET s == CHOOSE s \in cancelled : \A s2 \in cancelled : s <= s2
                IN wf' = [wf EXCEPT ![id] =
                             [w1 EXCEPT !.pc = "ext_cancel", !.idx = s, !.i = 0, !.j = 0,
                                        !.soak = release, !.cancelId = id]]
             /\ nFailures' = nFailures + 1
             /\ UNCHANGED stages
          \* the release is running; getWallTimes throws in a check that runs again
          \/ /\ release # << >>
             /\ release[1].state = "running" \/ cancelled = {}
             /\ checked # {}
             /\ nFailures + 1 < MaxFailures
             /\ wf' = [wf EXCEPT ![id] = [w1 EXCEPT !.pc = "catch"]]
             /\ nFailures' = nFailures + 2
             /\ UNCHANGED stages
          \* an SLO check that runs again sees a violation in the new metrics
          \/ /\ release # << >>
             /\ release[1].state = "running" \/ cancelled = {}
             /\ \E s \in checked, wallTimes \in Metrics :
                   LET sloConfigs == parseSLOsFromPlan(release[1].plan_record.slos)
                       sid == release[1].stages[s].id
                   IN /\ Len(sloConfigs) > 0
                      /\ ~evaluateSLOs(sloConfigs, wallTimes).passed
                      /\ stages' = IF sid \in DOMAIN stages
                                    THEN [stages EXCEPT ![sid] = addLog(@, "SLO violations")]
                                    ELSE stages
                      /\ wf' = [wf EXCEPT ![id] =
                                   [w1 EXCEPT !.pc = "slo_violation", !.idx = s, !.i = 0,
                                              !.j = 0, !.soak = release]]
             /\ nFailures' = nFailures + 1
          \* every check that runs again gives what it gave before
          \/ /\ release # << >>
             /\ release[1].state = "running" \/ cancelled = {}
             /\ wf' = [wf EXCEPT ![id] = w1]
             /\ nFailures' = nFailures + 1
             /\ UNCHANGED stages
    /\ UNCHANGED << evaluation, plan, history, events, deployments, now, ingressVars >>

\* The system with restarts of the orchestrator's process.
NextRestart ==
    \/ Ingress
    \/ \E id \in ReleaseIds : Workflow(id)
    \/ \E id \in ReleaseIds : WfRestart(id)

SpecRestart == Init /\ [][NextRestart]_vars

\* The system with its plan editor: PUT /plan next to every other request.
NextPlan ==
    \/ \E body \in PutBodies : PutPlan(body)
    \/ Ingress
    \/ \E id \in ReleaseIds : Workflow(id)

SpecPlan == Init /\ [][NextPlan]_vars

\* SLOEvaluator.evaluateSLOs on its own: any list of configs against any
\* metrics tuple.
InitSlo ==
    /\ InitStores
    /\ plan = ManualPlan
    /\ \E sloConfigs \in SLOConfigLists, metrics \in ObservabilityMetrics :
           evaluation = [sloConfigs |-> sloConfigs, metrics |-> << metrics >>,
                         result |-> << >>]

Evaluate ==
    /\ evaluation.metrics # << >>
    /\ evaluation.result = << >>
    /\ evaluation' = [evaluation EXCEPT !.result =
                         << evaluateSLOs(evaluation.sloConfigs, evaluation.metrics[1]) >>]
    /\ UNCHANGED << plan, history, stages, wf, events, deployments, now, pendingCreates,
                    pendingStarts, pendingStops, pendingDeletes, nextId, nInputs, nFailures >>

SpecSlo == InitSlo /\ [][Evaluate]_vars

\* The SLO check at the end of a polling round taken on its own: the slos
\* array of the plan snapshot as PUT /plan stored it (entries with percentile
\* p50 or a threshold of 0 among them) is parsed, and the parsed configs are
\* evaluated unless there is none.
PlanSlo == [percentile : {"p99", "median", "p50"}, latency_ms : {0, 100}]
PlanSloLists == UNION {[1..n -> PlanSlo] : n \in 0..MaxSloConfigs}

InitSloCheck ==
    /\ InitStores
    /\ plan = ManualPlan
    /\ \E slos \in PlanSloLists, wallTimes \in ObservabilityMetrics :
           evaluation = [sloConfigs |-> slos, metrics |-> << wallTimes >>,
                         result |-> << >>]

SloCheck ==
    /\ evaluation.metrics # << >>
    /\ evaluation.result = << >>
    /\ LET sloConfigs == parseSLOsFromPlan(evaluation.sloConfigs)
       IN evaluation' = [evaluation EXCEPT !.result =
                            IF Len(sloConfigs) > 0
                            THEN << evaluateSLOs(sloConfigs, evaluation.metrics[1]) >>
                            ELSE << [passed |-> TRUE, violations |-> << >>] >>]
    /\ UNCHANGED << plan, history, stages, wf, events, deployments, now, pendingCreates,
                    pendingStarts, pendingStops, pendingDeletes, nextId, nInputs, nFailures >>

SpecSloCheck == InitSloCheck /\ [][SloCheck]_vars

\* ----------------------------------------------------------------- claims

\* The positions of the history that hold a release in not_started or running.
ActiveReleases == {k \in 1..Len(history.releases) : IsActive(history.releases[k])}

\* C1: in every reachable state, under any interleaving of create requests
\* (each a hasActiveRelease check followed later by createRelease), the
\* history holds at most one release whose state is not_started or running.
AtMostOneActiveRelease == Cardinality(ActiveReleases) <= 1

\* The revert commands (100% old version) the deployment controller carried
\* out for the release so far; a call that failed is not among them, so that
\* a failed revert which the error handler repeats counts once.
Reverts(id) ==
    {k \in 1..Len(deployments) :
        /\ deployments[k].release = id
        /\ deployments[k].kind = "revert"
        /\ deployments[k].ok}

\* The run of the release's orchestrator has ended.
RunEnded(id) == wf[id].pc = "done" /\ wf[id].release # << >>

\* The run left processStages on a failure path, or through the catch.
FailurePath(id) == wf[id].exit # "none" \/ wf[id].failed

\* C2: for every release of the ledger whose run ended on a failure path
\* (SLO violation, stop detected during soak or at the approval gate, deny,
\* workflow error) the revert command was issued exactly once over the run.
RollbackExactlyOnce ==
    \A id \in ReleaseIds :
        /\ getRelease(history, id) # << >>
        /\ RunEnded(id)
        /\ FailurePath(id)
        => Cardinality(Reverts(id)) = 1

ReleaseTerminal == {"done_successful", "done_failed_slo", "done_stopped_manually", "error"}

\* The state of the release in the history h; "absent" when h has no such id.
ReleaseStateIn(h, id) ==
    IF getRelease(h, id) = << >> THEN "absent" ELSE getRelease(h, id)[1].state

\* C3: once a release's state is done_successful, done_failed_slo,
\* done_stopped_manually or error, no later step (an orchestrator step, the
\* start or the stop handler, in any interleaving) changes its state.
ReleaseTerminalAbsorbing ==
    [][\A id \in ReleaseIds :
          /\ ReleaseStateIn(history, id) \in ReleaseTerminal
          /\ ReleaseStateIn(history', id) # "absent"
          => ReleaseStateIn(history', id) = ReleaseStateIn(history, id)]_vars

StageTerminal == {"done_successful", "done_failed", "done_cancelled"}

\* C4: once a stage's state is done_successful, done_failed or
\* done_cancelled, no later updateStageState or progressStage call changes it
\* (no caller of the program forces a bulk cleanup: updateStagesStateBad is
\* always called with excludeCompleted = true).
StageTerminalAbsorbing ==
    [][\A sid \in DOMAIN stages :
          stages[sid].state \in StageTerminal
          => stages'[sid].state = stages[sid].state]_vars

\* The step taken is the last step of the run of the release's orchestrator.
RunEndsNow(id) == wf[id].pc # "done" /\ wf'[id].pc = "done" /\ wf'[id].release # << >>

\* The stage references of the release after the stage the run stopped at.
LaterStageRefs(id) ==
    {wf[id].release[1].stages[k] : k \in (wf[id].idx + 1)..Len(wf[id].release[1].stages)}

\* The last deployment command issued for the release is a revert to 100% of
\* the old version (a finish to 100% of the new one) that was carried out.
LastDeploymentIs(id, kind) ==
    \E k \in 1..Len(deployments) :
        /\ deployments[k].release = id
        /\ deployments[k].kind = kind
        /\ deployments[k].ok
        /\ \A m \in (k + 1)..Len(deployments) : deployments[m].release # id

\* Stage k done_failed, the later stages terminal (done_cancelled, or the
\* terminal state they were in before) and never started, the release
\* done_failed_slo, traffic reverted.
SloViolationOutcome(id) ==
    /\ ReleaseStateIn(history, id) = "done_failed_slo"
    /\ stages[StageRef(wf[id]).id].state = "done_failed"
    /\ \A r \in LaterStageRefs(id) :
          /\ stages[r.id].state \in StageTerminal
          /\ stages[r.id].time_started = 0
    /\ LastDeploymentIs(id, "revert")

\* C5: when the SLO evaluation at the end of a polling round of stage k
\* reports a violation (and no step fails with an error afterwards), the run
\* ends with stage k in done_failed, every later stage terminal
\* (done_cancelled unless it was terminal before) and never started, the
\* release in done_failed_slo and traffic reverted to 100% old version.
SloViolationEnds ==
    [][\A id \in ReleaseIds :
          RunEndsNow(id) /\ wf'[id].exit = "slo_violation" /\ ~wf'[id].failed
          => SloViolationOutcome(id)']_vars

\* The stage references of the release.
StageRefs(id) == {wf[id].release[1].stages[k] : k \in 1..Len(wf[id].release[1].stages)}

\* Every stage terminal, the release done_stopped_manually, traffic reverted.
StoppedOutcome(id) ==
    /\ ReleaseStateIn(history, id) = "done_stopped_manually"
    /\ \A r \in StageRefs(id) : stages[r.id].state \in StageTerminal
    /\ LastDeploymentIs(id, "revert")

\* The orchestrator is in the soak loop of a stage: before the cancellation
\* check of a tick, or after the last sleep of a polling round.
Soaking(id) == wf[id].pc \in {"tick", "slo_check"}

\* C6: once a stop is recorded while stage k soaks, the orchestrator's next
\* step notices it (it goes to the cancellation check or to the handling of
\* the cancellation, without evaluating SLOs into a verdict, finishing the
\* stage or sleeping another tick), and a run that handled a cancellation
\* (without a step failing afterwards) ends with every stage terminal, the
\* release in done_stopped_manually and traffic reverted to 100% old version.
StopDuringSoak ==
    [][\A id \in ReleaseIds :
          /\ (/\ ReleaseStateIn(history, id) = "done_stopped_manually"
              /\ Soaking(id)
              /\ wf'[id] # wf[id]
              => wf'[id].pc \in {"tick", "ext_cancel", "set_awaiting", "catch"} /\ now' = now)
          /\ (RunEndsNow(id) /\ wf'[id].exit = "external_cancellation" /\ ~wf'[id].failed
              => StoppedOutcome(id)')]_vars

\* The denied stage done_cancelled, the later stages terminal and never
\* started, the release done_stopped_manually, traffic reverted.
DenyOutcome(id) ==
    /\ ReleaseStateIn(history, id) = "done_stopped_manually"
    /\ stages[StageRef(wf[id]).id].state = "done_cancelled"
    /\ \A r \in LaterStageRefs(id) :
          /\ stages[r.id].state \in StageTerminal
          /\ stages[r.id].time_started = 0
    /\ LastDeploymentIs(id, "revert")

\* C7: when a deny command arrives for a stage that is awaiting approval
\* (under SpecGate the orchestrator takes the deny branch in no other case)
\* and no step fails with an error afterwards, the run
\* ends with that stage in done_cancelled, the remaining stages terminal and
\* never started, the release in done_stopped_manually and traffic reverted
\* to 100% old version.
DenyEnds ==
    [][\A id \in ReleaseIds :
          RunEndsNow(id) /\ wf'[id].exit = "denied" /\ ~wf'[id].failed
          => DenyOutcome(id)']_vars

\* Every stage done_successful, the release done_successful, the last
\* deployment command setting 100% of traffic to the new version.
SuccessOutcome(id) ==
    /\ ReleaseStateIn(history, id) = "done_successful"
    /\ \A r \in StageRefs(id) : stages[r.id].state = "done_successful"
    /\ LastDeploymentIs(id, "finish")

\* C8: a run of a started release in which no SLO evaluation reported a
\* violation, no gate was denied, no external call failed and (SpecGate) no
\* stop was requested ends with every stage in done_successful, the release
\* in done_successful and the last deployment command setting 100% of
\* traffic to the new version.
SuccessfulCompletion ==
    [][\A id \in ReleaseIds :
          /\ RunEndsNow(id)
          /\ wf'[id].exit \notin {"slo_violation", "denied"}
          /\ ~wf'[id].failed
          /\ nFailures' = 0
          => SuccessOutcome(id)']_vars

\* The last deployment command issued for the release is a revert, carried
\* out or not.
RevertAttempted(id) ==
    \E k \in 1..Len(deployments) :
        /\ deployments[k].release = id
        /\ deployments[k].kind = "revert"
        /\ \A m \in (k + 1)..Len(deployments) : deployments[m].release # id

\* Every stage terminal, the release in error, a revert attempted.
ErrorOutcome(id) ==
    /\ ReleaseStateIn(history, id) = "error"
    /\ \A r \in StageRefs(id) : stages[r.id].state \in StageTerminal
    /\ RevertAttempted(id)

\* C9: a run in which a step failed with an uncaught error (a failed
\* telemetry query or deployment-controller call among them) ends with
\* every stage terminal (done_cancelled unless it was terminal before), the
\* release in state error and a revert to 100% old version attempted.
FatalErrorEnds ==
    [][\A id \in ReleaseIds :
          RunEndsNow(id) /\ wf'[id].failed => ErrorOutcome(id)']_vars

\* A create request passes the hasActiveRelease check.
CreateAccepted == CreateCheck /\ pendingCreates' = pendingCreates + 1

\* The step adds a release to the history: the new release is not_started,
\* at the head, in front of the releases that were there, and it belongs to
\* a request that had passed the check.
CreateAdds ==
    /\ pendingCreates > 0
    /\ Len(history'.releases) = Len(history.releases) + 1
    /\ Head(history'.releases).state = "not_started"
    /\ Head(history'.releases).id \notin {history.releases[k].id : k \in 1..Len(history.releases)}
    /\ Tail(history'.releases) = history.releases

\* C10: while the history holds a release in not_started or running, no
\* create request passes the check, and a create step taken then changes
\* neither the history nor the stage records; when no release is active (the
\* active one has reached a terminal state) a create request passes the
\* check, and the release it adds is a new not_started release.
CreateConflict ==
    [][/\ (ActiveReleases # {} => pendingCreates' <= pendingCreates)
       /\ (ActiveReleases # {} /\ CreateCheck
           => UNCHANGED << history, stages, pendingCreates >>)
       /\ (ActiveReleases = {} /\ InputAllowed => ENABLED CreateAccepted)
       /\ (Len(history'.releases) > Len(history.releases) => CreateAdds)]_vars

\* A release reached a terminal state and a later create request added a new
\* not_started release in front of it.
CreateAfterTerminal ==
    /\ Len(history.releases) = 2
    /\ history.releases[1].state = "not_started"
    /\ history.releases[2].state \in ReleaseTerminal
    /\ history.releases[2].time_done > 0
    /\ history.releases[1].time_created >= history.releases[2].time_done

\* C11: under any interleaving of a delete request with a start request, a
\* release is removed from the history only while its state is not_started
\* at the moment of removal.
DeleteOnlyNotStarted ==
    [][\A id \in ReleaseIds :
          /\ ReleaseStateIn(history, id) # "absent"
          /\ ReleaseStateIn(history', id) = "absent"
          => ReleaseStateIn(history, id) = "not_started"]_vars

\* C12: an approve or deny command directed at a stage whose state is not
\* awaiting_approval leaves the stage's state, timestamps and logs unchanged.
WrongStateCommandRejected ==
    [][\A sid \in DOMAIN stages, command \in {"approve", "deny"} :
          StageCommand(sid, command) /\ stages[sid].state # "awaiting_approval"
          => /\ stages'[sid].state = stages[sid].state
             /\ stages'[sid].time_started = stages[sid].time_started
             /\ stages'[sid].time_elapsed = stages[sid].time_elapsed
             /\ stages'[sid].time_done = stages[sid].time_done
             /\ stages'[sid].logs = stages[sid].logs]_vars

\* The state and the id of the release a handler's getActiveRelease finds
\* (the first release of the history in not_started or running); "none"
\* and 0 without one.
ActiveState ==
    IF ActiveReleases = {} THEN "none"
    ELSE history.releases[CHOOSE k \in ActiveReleases : \A m \in ActiveReleases : k <= m].state
ActiveId ==
    IF ActiveReleases = {} THEN 0
    ELSE history.releases[CHOOSE k \in ActiveReleases : \A m \in ActiveReleases : k <= m].id

\* A start (stop) request passes its checks.
StartAccepted == StartRequest /\ nInputs' = nInputs + 1
StopAccepted == StopCheck /\ nInputs' = nInputs + 1

\* C13: a start request passes its checks (and creates an orchestrator run)
\* only when the active release is not_started, a stop request only when it
\* is running, and then they can pass; a start or stop request issued in any
\* other case (no active release among them) changes neither the release
\* states, nor the stages, nor the set of orchestrator runs.
CommandPreconditions ==
    [][/\ (pendingStarts' \ pendingStarts # {}
           => ActiveState = "not_started" /\ pendingStarts' \ pendingStarts = {ActiveId})
       /\ (\A id \in ReleaseIds :
             wf[id].pc = "none" /\ wf'[id].pc # "none"
             => ActiveState = "not_started" /\ id = ActiveId)
       /\ (\A req \in pendingStops' \ pendingStops :
             ActiveState = "running" /\ req.id = ActiveId)
       /\ (StartRequest /\ ActiveState # "not_started"
           => UNCHANGED << history, stages, wf, pendingStarts >>)
       /\ (StopCheck /\ ActiveState # "running"
           => UNCHANGED << history, stages, wf, pendingStops >>)
       /\ (ActiveState = "not_started" /\ wf[ActiveId].pc = "none" /\ InputAllowed
           => ENABLED StartAccepted)
       /\ (ActiveState = "running" /\ InputAllowed => ENABLED StopAccepted)]_vars

\* A release was started while not_started, then stopped while running, and
\* both handlers have finished.
StartedThenStopped ==
    \E id \in ReleaseIds :
        /\ wf[id].pc # "none"
        /\ ReleaseStateIn(history, id) = "done_stopped_manually"
        /\ pendingStarts = {} /\ pendingStops = {}
        /\ events[id] # << >>

\* Taken in order of `order`, the target percents of p strictly increase and
\* the stage of greatest order is at 100.
ValidPlan(p) ==
    LET ps == p.stages
    IN /\ \A a, b \in 1..Len(ps) :
              ps[a].order < ps[b].order => ps[a].target_percent < ps[b].target_percent
       /\ \A a \in 1..Len(ps) :
              (\A b \in 1..Len(ps) : ps[b].order <= ps[a].order)
              => ps[a].target_percent = 100

\* C14: the stored plan always has strictly increasing target percents in
\* stage order and its final stage at 100 percent; an update that would
\* violate this leaves the stored plan as it was.
StoredPlanValid == ValidPlan(plan)

\* The positions of the configs whose observed value exceeds the threshold.
Exceeding(sloConfigs, metrics) ==
    {k \in 1..Len(sloConfigs) : metrics[sloConfigs[k].percentile] > sloConfigs[k].latency_ms}

\* violations lists, in order, exactly the configs at the positions in `at`,
\* each with its threshold, its observed value and their difference.
ViolationsAre(violations, sloConfigs, metrics, at) ==
    /\ Len(violations) = Cardinality(at)
    /\ \E f \in [1..Len(violations) -> at] :
          /\ \A a, b \in 1..Len(violations) : a < b => f[a] < f[b]
          /\ \A a \in 1..Len(violations) :
                LET slo == sloConfigs[f[a]]
                    observed == metrics[slo.percentile]
                IN violations[a] = [percentile |-> slo.percentile,
                                    expected_max_ms |-> slo.latency_ms,
                                    actual_ms |-> observed,
                                    violation_margin_ms |-> observed - slo.latency_ms]

\* C15: evaluateSLOs returns exactly one violation for each config whose
\* observed value is strictly greater than its threshold (equal is not a
\* violation), each with margin observed minus threshold, and passed is true
\* exactly when there is no violation.
EvaluateSLOsResult ==
    evaluation.result # << >> =>
        LET result == evaluation.result[1]
            sloConfigs == evaluation.sloConfigs
            metrics == evaluation.metrics[1]
        IN /\ ViolationsAre(result.violations, sloConfigs, metrics,
                            Exceeding(sloConfigs, metrics))
           /\ result.passed <=> (result.violations = << >>)

\* An evaluation of two configs with threshold 100: p99 observed at 100 and
\* p999 observed at 150 give one violation, for p999, with margin 50.
OneOfTwoViolated ==
    /\ evaluation.result # << >>
    /\ evaluation.sloConfigs = << [percentile |-> "p99", latency_ms |-> 100],
                                  [percentile |-> "p999", latency_ms |-> 100] >>
    /\ evaluation.metrics[1].p99 = 100
    /\ evaluation.metrics[1].p999 = 150
    /\ ~evaluation.result[1].passed
    /\ Len(evaluation.result[1].violations) = 1
    /\ evaluation.result[1].violations[1].percentile = "p999"
    /\ evaluation.result[1].violations[1].violation_margin_ms = 50

\* The plan_record of the release id in the ledger h (<< >> when absent).
PlanRecordIn(h, id) ==
    IF getRelease(h, id) = << >> THEN << >> ELSE << getRelease(h, id)[1].plan_record >>

\* The plan_record of an option value holding a release.
PlanRecordOf(release) ==
    IF release = << >> THEN << >> ELSE << release[1].plan_record >>

\* C16: once a release is created, no step (a plan update in particular)
\* changes its plan_record; the release the orchestrator holds, and the one
\* it re-reads for each soak, carry that plan_record; and every traffic split
\* it requests is the target percent of a stage of that plan_record.
PlanSnapshotIsolated ==
    [][\A id \in ReleaseIds :
          /\ (PlanRecordIn(history, id) # << >> /\ PlanRecordIn(history', id) # << >>
                => PlanRecordIn(history', id) = PlanRecordIn(history, id))
          /\ (wf[id].release # << >>
                => PlanRecordOf(wf'[id].release) = PlanRecordOf(wf[id].release))
          /\ (wf[id].release = << >> /\ wf'[id].release # << >>
                => PlanRecordOf(wf'[id].release) = PlanRecordIn(history, id))
          /\ (wf'[id].soak # wf[id].soak /\ wf'[id].soak # << >>
                => PlanRecordOf(wf'[id].soak) = PlanRecordOf(wf[id].release))
          /\ (/\ Len(deployments') = Len(deployments) + 1
              /\ deployments'[Len(deployments')].release = id
              /\ deployments'[Len(deployments')].kind = "split"
              => \E k \in 1..Len(wf[id].release[1].plan_record.stages) :
                    LET planStage == wf[id].release[1].plan_record.stages[k]
                    IN /\ planStage.order = wf[id].release[1].stages[wf[id].idx].order
                       /\ planStage.target_percent
                             = deployments'[Len(deployments')].new_percent)]_vars

\* The plan whose second stage is at 10 percent was stored while release id
\* was soaking its first stage; later the release's second stage started,
\* with the 100 percent of its plan_record.
SplitFromSnapshot ==
    \E id \in ReleaseIds :
        /\ PlanRecordIn(history, id) # << >>
        /\ plan.stages = DescendingPlan.stages
        /\ PlanRecordIn(history, id)[1].stages = AutoPlan.stages
        /\ getStageId(id, 2) \in DOMAIN stages
        /\ stages[getStageId(id, 2)].time_started > plan.time_last_saved
        /\ plan.time_last_saved > getRelease(history, id)[1].time_created
        /\ deployments # << >>
        /\ deployments[Len(deployments)]
              = [release |-> id, kind |-> "split", new_percent |-> 100,
                 old_percent |-> 0, ok |-> TRUE]

\* Where the instance w stands in run(): the step it is at.
Position(w) == << w.pc, w.idx, w.i, w.j >>

\* C17: when the process restarts while the release is running and the run
\* is replayed, execution is again at the first step that had not completed,
\* and the replay has written nothing to the stages, the ledger or the
\* deployment controller.
ReplayResumes ==
    [][\A id \in ReleaseIds :
          WfRestart(id) /\ ReleaseStateIn(history, id) = "running"
          => /\ Position(wf'[id]) = Position(wf[id])
             /\ UNCHANGED << history, stages, deployments >>]_vars

\* C18: after any number of createRelease calls the ledger holds at most
\* MAX_RELEASES releases, the latest created first, and they are the latest
\* created ones in order of creation: past the cap the oldest are gone.
BoundedHistory ==
    LET created == nextId - 1
        releases == history.releases
    IN /\ Len(releases) <= MAX_RELEASES
       /\ Len(releases) = IF created < MAX_RELEASES THEN created ELSE MAX_RELEASES
       /\ \A k \in 1..Len(releases) : releases[k].id = created - k + 1

\* Three releases past the cap: the ledger is full, with the latest release
\* first and the fourth created last.
HistoryTrimmed ==
    /\ nextId - 1 = MAX_RELEASES + 3
    /\ Len(history.releases) = MAX_RELEASES
    /\ history.releases[1].id = MAX_RELEASES + 3
    /\ history.releases[MAX_RELEASES].id = 4

\* C19: updateReleaseState with an id that is not in the ledger returns
\* failure and leaves every release of the ledger as it was: for every
\* ledger the system reaches and every target state, and in the calls the
\* system makes with such an id (from the start handler, from "update
\* release state to running", from the deny branch, from "complete release").
UnknownIdLeavesLedger ==
    [][\A id \in ReleaseIds :
          findReleaseIndex(history, id) = 0
          => /\ ~updateReleaseStateResult(history, id)
             /\ \A state \in ReleaseTerminal \cup {"not_started", "running"} :
                   updateReleaseState(history, id, state, now).releases = history.releases
             /\ (StartWrite(id) \/ WfSetRunning(id) \/ WfDeny(id) \/ WfComplete(id)
                   => history'.releases = history.releases)]_vars

\* Release 1 was deleted between the two ledger calls of its start request:
\* the start handler's updateReleaseState found no release 1 (the ledger's
\* alarm was never set), and the ledger is empty.
StartWroteUnknownId ==
    /\ nextId = 2
    /\ history.releases = << >>
    /\ ~history.alarm
    /\ wf[1].pc = "created"
    /\ pendingStarts = {}
    /\ pendingDeletes = {}

\* C20: a step marks a stage running only when every stage of the same
\* release with a smaller order is done_successful, whatever the order of
\* the stages in the stored plan.
StagesInAscendingOrder ==
    [][\A sid \in DOMAIN stages :
          stages[sid].state # "running" /\ stages'[sid].state = "running"
          => \A earlier \in DOMAIN stages :
                /\ stages[earlier].releaseId = stages[sid].releaseId
                /\ stages[earlier].order < stages[sid].order
                => stages[earlier].state = "done_successful"]_vars

\* The orchestrator of release id is in the loop iteration of a stage that
\* is neither the last one nor auto_progress.
AtGatedStage(w) == w.release # << >> /\ w.idx > 0 /\ w.pc # "done" /\ NeedsApproval(w)

\* The traffic splits requested for release id.
SplitsOf(deps, id) ==
    {k \in 1..Len(deps) : deps[k].release = id /\ deps[k].kind = "split"}

\* C21: for a stage that is neither last nor auto_progress, a clean soak
\* leads to the step that marks it awaiting_approval; the orchestrator comes
\* to the "done" step of that stage only by taking an approve command sent
\* for it, leaves the wait only by taking an approve or deny command, and
\* between the end of the soak and that command it neither writes
\* done_successful to the stage nor requests a traffic split.
ApprovalGateBlocks ==
    [][\A id \in ReleaseIds :
          AtGatedStage(wf[id]) =>
             LET w == wf[id]
                 sid == StageRef(w).id
                 k == FirstEvent(events[id], sid)
             IN /\ (w.pc = "slo_check" /\ wf'[id].pc \notin {"slo_check", "tick", "catch",
                                                              "slo_violation"}
                      => wf'[id].pc = "set_awaiting")
                /\ (WfSetAwaiting(id) => stages'[sid].state = "awaiting_approval")
                /\ (w.pc # "stage_done" /\ wf'[id].pc = "stage_done"
                      => /\ w.pc = "wait_event"
                         /\ k # 0
                         /\ events[id][k].payload = "approve"
                         /\ events'[id] = RemoveAt(events[id], k))
                /\ (w.pc = "wait_event" /\ wf'[id].pc # "wait_event"
                      => k # 0 /\ events[id][k].payload \in {"approve", "deny"})
                /\ (w.pc \in {"set_awaiting", "wait_event"} /\ wf'[id] # w
                      => /\ SplitsOf(deployments', id) = SplitsOf(deployments, id)
                         /\ (stages'[sid].state = "done_successful"
                               => stages[sid].state = "done_successful"))]_vars

\* Release 1 waits at the gate of its first stage: the stage is
\* awaiting_approval, no command was sent, the second stage is queued and
\* the only traffic split is the first stage's.
WaitingAtGate ==
    /\ wf[1].pc = "wait_event"
    /\ wf[1].idx = 1
    /\ events[1] = << >>
    /\ stages[getStageId(1, 1)].state = "awaiting_approval"
    /\ stages[getStageId(1, 2)].state = "queued"
    /\ Cardinality(SplitsOf(deployments, 1)) = 1

\* The orchestrator of release id is in the loop iteration of a stage that
\* has the greatest order of the release's plan or is auto_progress.
AtUngatedStage(w) ==
    /\ w.release # << >> /\ w.idx > 0 /\ w.pc # "done"
    /\ \/ StagePlan(w).auto_progress
       \/ \A k \in 1..Len(w.release[1].plan_record.stages) :
             w.release[1].plan_record.stages[k].order <= StageRef(w).order

\* C22: for a stage that has the greatest order of the plan or is
\* auto_progress, the orchestrator never comes to the step that marks it
\* awaiting_approval and never writes awaiting_approval to it; after a clean
\* soak its next step is the "done" step, which writes done_successful.
NoGateOnLastOrAuto ==
    [][\A id \in ReleaseIds :
          AtUngatedStage(wf[id]) =>
             LET w == wf[id]
                 sid == StageRef(w).id
             IN /\ wf'[id].pc \notin {"set_awaiting", "wait_event"}
                /\ (wf'[id] # w /\ stages'[sid].state = "awaiting_approval"
                      => stages[sid].state = "awaiting_approval")
                /\ (w.pc = "slo_check" /\ wf'[id].pc \notin {"slo_check", "tick", "catch",
                                                              "slo_violation"}
                      => wf'[id].pc = "stage_done")
                /\ (WfStageDone(id) => stages'[sid].state = "done_successful")]_vars

\* Release 1 was created from the plan whose last stage is not
\* auto_progress and ran to the end without a command: both stages went
\* from running to done_successful.
LastStageNotGated ==
    /\ wf[1].pc = "done"
    /\ wf[1].release # << >>
    /\ wf[1].release[1].plan_record.stages = DescendingPlan.stages
    /\ events[1] = << >>
    /\ \A o \in {1, 2} :
          /\ stages[getStageId(1, o)].state = "done_successful"
          /\ stages[getStageId(1, o)].logs
                = << "Stage started", "Stage completed and auto progressed" >>

\* C23: every traffic split is requested in the step that has just marked a
\* stage of the release running, with the new version at that stage's
\* target_percent and the old version at 100 minus it; the step that marks a
\* stage running requests exactly one split, so that the splits requested
\* for a release are as many as the stages its orchestrator has started.
SplitAtStageStart ==
    [][\A id \in ReleaseIds :
          /\ (SplitsOf(deployments', id) # SplitsOf(deployments, id)
                => /\ WfStageStart(id)
                   /\ SplitsOf(deployments', id)
                        = SplitsOf(deployments, id) \cup {Len(deployments) + 1}
                   /\ stages'[StageRef(wf[id]).id].state = "running"
                   /\ \E k \in 1..Len(wf[id].release[1].plan_record.stages) :
                         LET planStage == wf[id].release[1].plan_record.stages[k]
                             split == deployments'[Len(deployments')]
                         IN /\ planStage.order = stages'[StageRef(wf[id]).id].order
                            /\ split.new_percent = planStage.target_percent
                            /\ split.old_percent = 100 - planStage.target_percent)
          /\ (WfStageStart(id)
                => /\ Len(deployments') = Len(deployments) + 1
                   /\ Cardinality(SplitsOf(deployments', id)) = wf[id].idx)]_vars

\* Release 1 has started both stages of the 10% / 100% plan: two splits,
\* 10/90 and then 100/0, and the second stage is running.
TwoStagesSplit ==
    /\ wf[1].release # << >>
    /\ wf[1].release[1].plan_record.stages = AutoPlan.stages
    /\ Cardinality(SplitsOf(deployments, 1)) = 2
    /\ deployments[1] = [release |-> 1, kind |-> "split", new_percent |-> 10,
                         old_percent |-> 90, ok |-> TRUE]
    /\ deployments[2] = [release |-> 1, kind |-> "split", new_percent |-> 100,
                         old_percent |-> 0, ok |-> TRUE]
    /\ stages[getStageId(1, 2)].state = "running"

\* The edges of the stage state machine.
StageEdges ==
    { << "queued", "running" >>,
      << "running", "awaiting_approval" >>,
      << "running", "done_successful" >>,
      << "running", "done_failed" >>,
      << "awaiting_approval", "done_successful" >>,
      << "awaiting_approval", "done_cancelled" >>,
      << "queued", "done_failed" >>,
      << "queued", "done_cancelled" >> }

\* C24: every change of a stage's state is one of the edges queued->running,
\* running->awaiting_approval, running->done_successful, running->done_failed,
\* awaiting_approval->done_successful, awaiting_approval->done_cancelled,
\* queued->done_failed, queued->done_cancelled.
StageEdgesOnly ==
    [][\A sid \in DOMAIN stages :
          stages'[sid].state # stages[sid].state
          => << stages[sid].state, stages'[sid].state >> \in StageEdges]_vars

\* The stop handler's writes land for the release while its orchestrator is
\* suspended on the approval event of a stage that is awaiting approval.
StopAtGate(id) ==
    /\ wf[id].pc = "wait_event"
    /\ stages[StageRef(wf[id]).id].state = "awaiting_approval"
    /\ \E req \in pendingStops : req.id = id /\ StopCommit(req)

\* The stage the run stopped at and every later stage are done_cancelled,
\* the release done_stopped_manually, traffic reverted.
StoppedAtGateOutcome(id) ==
    /\ ReleaseStateIn(history, id) = "done_stopped_manually"
    /\ stages[StageRef(wf[id]).id].state = "done_cancelled"
    /\ \A r \in LaterStageRefs(id) : stages[r.id].state = "done_cancelled"
    /\ LastDeploymentIs(id, "revert")

\* C25: when the stop handler's writes land while a stage is awaiting
\* approval and the orchestrator is suspended on the approval event, a deny
\* event for that stage is waiting for the orchestrator (the wait can
\* return), and a run woken by the stop handler's deny (SpecStop: no other
\* command is sent to a stage) in which no step fails afterwards ends with
\* the stage and every later stage in done_cancelled, the release in
\* done_stopped_manually and traffic reverted to 100% old version.
StopDuringApprovalWait ==
    [][\A id \in ReleaseIds :
          /\ (StopAtGate(id)
              => LET k == FirstEvent(events'[id], StageRef(wf[id]).id)
                 IN k # 0 /\ events'[id][k].payload = "deny")
          /\ (RunEndsNow(id) /\ wf'[id].exit = "denied" /\ ~wf'[id].failed
              => StoppedAtGateOutcome(id)')]_vars

\* The soak of the stage the orchestrator is at has a soak time of at least
\* one second and a polling fraction in (0,1].
InSoakRange(w) ==
    /\ w.soak # << >>
    /\ StagePlan(w).soak_time >= 1
    /\ w.soak[1].plan_record.polling_fraction.num >= 1
    /\ w.soak[1].plan_record.polling_fraction.num <= w.soak[1].plan_record.polling_fraction.den

\* max(1, floor(soak_time * fraction)) and floor(soak_time / interval),
\* written out.
ExpectedInterval(w) ==
    LET f == w.soak[1].plan_record.polling_fraction
        product == (StagePlan(w).soak_time * f.num) \div f.den
    IN IF product < 1 THEN 1 ELSE product

ExpectedRounds(w) == StagePlan(w).soak_time \div ExpectedInterval(w)

\* C26: for a soak time >= 1 and a polling fraction in (0,1], with
\* interval = max(1, floor(soak_time * fraction)): a started stage enters
\* the soak loop (at least one SLO evaluation); every SLO evaluation comes
\* after exactly `interval` one-second ticks of its round; a clean soak ends
\* with the evaluation of round floor(soak_time / interval) and not before;
\* and the ticks of a clean soak number at most soak_time and more than
\* soak_time - interval.
SoakRoundArithmetic ==
    [][\A id \in ReleaseIds :
          LET w == wf[id]
              v == wf'[id]
          IN /\ (WfStageStart(id) /\ v.pc # "catch" /\ InSoakRange(v)
                 => v.pc = "tick" /\ v.i = 0 /\ v.j = 0 /\ ExpectedRounds(v) >= 1)
             /\ (w.pc = "tick" /\ InSoakRange(w) /\ v # w /\ v.pc # "ext_cancel"
                 => /\ now' = now + 1
                    /\ w.j < ExpectedInterval(w)
                    /\ v.i = w.i
                    /\ IF w.j + 1 = ExpectedInterval(w)
                       THEN v.pc = "slo_check" /\ v.j = 0
                       ELSE v.pc = "tick" /\ v.j = w.j + 1)
             /\ (w.pc = "slo_check" /\ InSoakRange(w) /\ v # w
                     /\ v.pc \notin {"catch", "slo_violation"}
                 => /\ w.i < ExpectedRounds(w)
                    /\ IF w.i + 1 = ExpectedRounds(w)
                       THEN /\ v.pc \in {"stage_done", "set_awaiting"}
                            /\ (w.i + 1) * ExpectedInterval(w) <= StagePlan(w).soak_time
                            /\ (w.i + 1) * ExpectedInterval(w)
                                   > StagePlan(w).soak_time - ExpectedInterval(w)
                       ELSE v.pc = "tick" /\ v.i = w.i + 1 /\ v.j = 0)]_vars

\* A stage with a soak time of 3 s and a polling fraction of 2/3 (interval
\* 2, one round) finished its clean soak two ticks after it started.
CleanSoakOfThree ==
    /\ wf[1].pc = "stage_done"
    /\ InSoakRange(wf[1])
    /\ StagePlan(wf[1]).soak_time = 3
    /\ wf[1].soak[1].plan_record.polling_fraction = Fraction(2, 3)
    /\ now = stages[getStageId(1, 1)].time_started + 2

\* Sequence `a` is a prefix of sequence `b`.
IsPrefix(a, b) == Len(a) <= Len(b) /\ SubSeq(b, 1, Len(a)) = a

\* The line progressStage writes for a command.
CommandLine(command) ==
    IF command = "approve" THEN "Stage approved."
    ELSE "Stage not approved. Cancelling release..."

\* C27: the logs of a stage only grow: across every step the logs of each
\* stage keep the earlier logs as a prefix; after an approve or deny command
\* on a stage (progressStage, with the automatic append of updateStageState
\* that is not awaited) the command's line is in the stage's logs and the
\* stage is in the command's state; and an SLO-violation line once logged
\* stays in the logs.
StageLogsAppendOnly ==
    [][/\ \A sid \in DOMAIN stages :
             sid \in DOMAIN stages' => IsPrefix(stages[sid].logs, stages'[sid].logs)
       /\ \A sid \in DOMAIN stages, command \in {"approve", "deny"} :
             StageCommand(sid, command) /\ nInputs' = nInputs + 1
             => /\ \E k \in 1..Len(stages'[sid].logs) :
                      stages'[sid].logs[k] = CommandLine(command)
                /\ stages'[sid].state =
                      IF command = "approve" THEN "done_successful" ELSE "done_cancelled"]_vars

\* C28: every step that takes a release of the ledger from running into a
\* terminal state (done_successful, done_failed_slo, done_stopped_manually,
\* error) leaves it with time_done set and time_elapsed equal to time_done
\* minus time_started, hence not negative.
ReleaseCompletionStamp ==
    [][\A id \in ReleaseIds :
          /\ ReleaseStateIn(history, id) = "running"
          /\ ReleaseStateIn(history', id) \in ReleaseTerminal
          => LET r == getRelease(history', id)[1]
             IN /\ r.time_done # 0
                /\ r.time_elapsed = r.time_done - r.time_started
                /\ r.time_elapsed >= 0]_vars

\* C29: every step that takes a stage from running or awaiting_approval into
\* a done_* state (done_successful, done_failed, done_cancelled) leaves it
\* with time_done set and time_elapsed equal to time_done minus
\* time_started.
StageCompletionStamp ==
    [][\A sid \in DOMAIN stages :
          /\ stages[sid].state \in {"running", "awaiting_approval"}
          /\ stages'[sid].state \in StageTerminal
          => /\ stages'[sid].time_done # 0
             /\ stages'[sid].time_elapsed = stages'[sid].time_done - stages'[sid].time_started]_vars

\* C30: for every release of the ledger, every stage reference resolves to
\* an initialized stage record with the reference's order and the release's
\* id, and while the release is not_started every such stage is queued.
StagesExistBeforeRelease ==
    \A n \in 1..Len(history.releases) :
        LET release == history.releases[n]
        IN \A k \in 1..Len(release.stages) :
              LET ref == release.stages[k]
              IN /\ ref.id \in DOMAIN stages
                 /\ stages[ref.id].id = ref.id
                 /\ stages[ref.id].order = ref.order
                 /\ stages[ref.id].releaseId = release.id
                 /\ (release.state = "not_started" => stages[ref.id].state = "queued")

\* The deployment commands issued for the release by the step taken.
NewDeployments(id) ==
    {k \in (Len(deployments) + 1)..Len(deployments') : deployments'[k].release = id}

\* C31: while the stop handler's done_stopped_manually is the recorded state
\* of a release, no step marks a stage of the release running and the only
\* deployment commands issued for it are reverts to 100% old version.
NoTrafficIncreaseAfterStop ==
    [][\A id \in ReleaseIds :
          ReleaseStateIn(history, id) = "done_stopped_manually"
          => /\ \A sid \in DOMAIN stages :
                   stages[sid].releaseId = id /\ stages[sid].state # "running"
                   => stages'[sid].state # "running"
             /\ \A k \in NewDeployments(id) : deployments'[k].kind = "revert"]_vars

\* The last deployment command issued for the release is of the given kind.
LastIssuedIs(id, kind) ==
    \E k \in 1..Len(deployments) :
        /\ deployments[k].release = id
        /\ deployments[k].kind = kind
        /\ \A m \in (k + 1)..Len(deployments) : deployments[m].release # id

\* C32: when the run of a release's orchestrator has finished, the last
\* deployment command issued for the release is the finish (100% new
\* version) exactly if the recorded state is done_successful, and is the
\* revert (100% old version) when the recorded state is done_failed_slo,
\* done_stopped_manually or error.
FinalStateMatchesTraffic ==
    \A id \in ReleaseIds :
        RunEnded(id) /\ ReleaseStateIn(history, id) # "absent"
        => /\ LastIssuedIs(id, "finish") <=> ReleaseStateIn(history, id) = "done_successful"
           /\ ReleaseStateIn(history, id) \in {"done_failed_slo", "done_stopped_manually", "error"}
              => LastIssuedIs(id, "revert")

\* C33: a step issues the finish command (100% new version) for a release
\* only if the release is in the history, every one of its stages is
\* done_successful at that moment, and the run did not take a cancellation,
\* violation or deny exit.
FinishRequiresFullSuccess ==
    [][\A id \in ReleaseIds :
          (\E k \in NewDeployments(id) : deployments'[k].kind = "finish")
          => /\ ReleaseStateIn(history, id) # "absent"
             /\ ReleaseStateIn(history', id) # "absent"
             /\ \A r \in StageRefs(id) : stages[r.id].state = "done_successful"
             /\ wf[id].exit = "none"]_vars

\* The stages of the release that are running or awaiting approval.
LiveStages(id) ==
    {sid \in DOMAIN stages :
        stages[sid].releaseId = id /\ stages[sid].state \in {"running", "awaiting_approval"}}

\* C34: at most one stage of a release is running or awaiting approval, and
\* every stage of the release with a larger order than that stage is queued.
SingleLiveStage ==
    \A id \in ReleaseIds :
        /\ Cardinality(LiveStages(id)) <= 1
        /\ \A live \in LiveStages(id), sid \in DOMAIN stages :
              stages[sid].releaseId = id /\ stages[sid].order > stages[live].order
              => stages[sid].state = "queued"

\* C35: when the run of a release's orchestrator has finished and the
\* release is in a terminal state, every stage of the release is in a done_*
\* state: none is queued, running or awaiting approval.
NoStageLeftBehind ==
    \A id \in ReleaseIds :
        RunEnded(id) /\ ReleaseStateIn(history, id) \in ReleaseTerminal
        => \A r \in StageRefs(id) : stages[r.id].state \in StageTerminal

\* The step taken is one of the orchestrator's cancellation steps: "handle
\* SLO violation", "handle external cancellation", the deny branch, or the
\* catch.
CascadeStep(id) ==
    \/ WfHandleSLOViolation(id)
    \/ WfHandleExternalCancellation(id)
    \/ WfDeny(id)
    \/ WfCatch(id)

\* C36: the steps of the SLO-violation, external-stop, deny and
\* workflow-error paths change only stages that are not in a done_* state: a
\* stage that was done_successful, done_failed or done_cancelled before the
\* step has the same record (state, timestamps, logs) after it.
CascadesLeaveFinishedStages ==
    [][\A id \in ReleaseIds :
          CascadeStep(id)
          => \A sid \in DOMAIN stages :
                stages[sid].state \in StageTerminal => stages'[sid] = stages[sid]]_vars

\* C37: the orchestrator of a started release is never stuck before the end
\* of its run other than at the approval wait without a command (a step is
\* enabled), and the step that ends a run in which no external call failed
\* leaves the release in a terminal state.
EveryRunTerminates ==
    [][\A id \in ReleaseIds :
          /\ (wf'[id].pc \notin {"none", "done"}
                 /\ ~(wf'[id].pc = "wait_event"
                        /\ FirstEvent(events'[id], StageRef(wf'[id]).id) = 0)
              => (ENABLED Workflow(id))')
          /\ (RunEndsNow(id) /\ nFailures' = 0
              => ReleaseStateIn(history', id) \in ReleaseTerminal)]_vars

\* C38: when every approve is sent before its stage entered
\* awaiting_approval (SpecEarly), the orchestrator never passes an approval
\* gate: no step takes it from the approval wait to the "done" step of the
\* stage.
NoEarlyApproval ==
    [][\A id \in ReleaseIds :
          ~(wf[id].pc = "wait_event" /\ wf'[id].pc = "stage_done")]_vars

\* The observed value an entry of the plan's slos array is compared with:
\* p50 is the median.
ObservedValue(metrics, percentile) ==
    IF percentile = "p50" THEN metrics.median ELSE metrics[percentile]

\* C39: a polling round counts as clean only if no entry of the plan
\* snapshot's slos array has an observed value above its threshold: every
\* entry is compared, whatever its percentile and threshold.
EverySloChecked ==
    evaluation.result # << >> /\ evaluation.result[1].passed
    => \A k \in 1..Len(evaluation.sloConfigs) :
          ObservedValue(evaluation.metrics[1], evaluation.sloConfigs[k].percentile)
              <= evaluation.sloConfigs[k].latency_ms

\* The deployment commands of the given kind issued for the release so far.
IssuedOf(deps, id, kind) ==
    {k \in 1..Len(deps) : deps[k].release = id /\ deps[k].kind = kind}

\* C40: once a revert or a finish has been issued for a release no step
\* issues a setSplit for it, and in a run that ends without a workflow error
\* the release has not both a finish and a revert.
RevertAndFinishFinal ==
    [][\A id \in ReleaseIds :
          /\ (IssuedOf(deployments, id, "revert") \cup IssuedOf(deployments, id, "finish") # {}
              => \A k \in NewDeployments(id) : deployments'[k].kind # "split")
          /\ (RunEndsNow(id) /\ ~wf'[id].failed
              => \/ IssuedOf(deployments', id, "finish") = {}
                 \/ IssuedOf(deployments', id, "revert") = {})]_vars

====
